---- MODULE Spec2Model ----
(***************************************************************************)
(* Matrix validation layer of stan/math/matrix_error_handling.hpp:         *)
(* check_size_match, check_symmetric, check_pos_definite, the two          *)
(* check_cov_matrix overloads, check_corr_matrix, the two check_not_nan    *)
(* overloads and check_finite, over IEEE-style scalars (finite values,     *)
(* NaN, +/-infinity).  Every operation is a pure function of its           *)
(* arguments; the state machine is a caller that invokes one operation at  *)
(* a time and observes its outcome.                                        *)
(***************************************************************************)
EXTENDS Integers, Sequences, FiniteSets, TLC

(***************************************************************************)
(* Scalars.  A double is a record: k = "fin" with the exact rational n/d   *)
(* (d > 0, lowest terms), k = "nan", or k = "inf" with sign n.             *)
(***************************************************************************)
RECURSIVE GCD(_, _)
GCD(a, b) == IF b = 0 THEN a ELSE GCD(b, a % b)

Abs(n) == IF n < 0 THEN -n ELSE n

Fin(n, d) ==
  LET g == GCD(Abs(n), d)
  IN  [k |-> "fin", n |-> n \div g, d |-> d \div g]

NaN == [k |-> "nan", n |-> 0, d |-> 1]

PInf == [k |-> "inf", n |-> 1, d |-> 1]

NInf == [k |-> "inf", n |-> -1, d |-> 1]

Zero == Fin(0, 1)

One == Fin(1, 1)

Two == Fin(2, 1)

Sgn(x) == IF x.n > 0 THEN 1 ELSE IF x.n < 0 THEN -1 ELSE 0

InfOf(s) == IF s < 0 THEN NInf ELSE PInf

IsNaN(x) == x.k = "nan"

IsFinite(x) == x.k = "fin"

Neg(x) ==
  IF x.k = "nan" THEN NaN
  ELSE IF x.k = "inf" THEN InfOf(-x.n)
  ELSE Fin(-x.n, x.d)

Add(x, y) ==
  IF x.k = "nan" \/ y.k = "nan" THEN NaN
  ELSE IF x.k = "inf" THEN (IF y.k = "inf" /\ y.n # x.n THEN NaN ELSE x)
  ELSE IF y.k = "inf" THEN y
  ELSE Fin(x.n * y.d + y.n * x.d, x.d * y.d)

Sub(x, y) == Add(x, Neg(y))

Mul(x, y) ==
  IF x.k = "nan" \/ y.k = "nan" THEN NaN
  ELSE IF x.k = "inf" \/ y.k = "inf"
       THEN (IF Sgn(x) = 0 \/ Sgn(y) = 0 THEN NaN ELSE InfOf(Sgn(x) * Sgn(y)))
  ELSE Fin(x.n * y.n, x.d * y.d)

Div(x, y) ==
  IF x.k = "nan" \/ y.k = "nan" THEN NaN
  ELSE IF x.k = "inf"
       THEN (IF y.k = "inf" THEN NaN
             ELSE InfOf(IF Sgn(y) < 0 THEN -x.n ELSE x.n))
  ELSE IF y.k = "inf" THEN Zero
  ELSE IF y.n = 0 THEN (IF x.n = 0 THEN NaN ELSE InfOf(x.n))
  ELSE Fin(Sgn(y) * x.n * y.d, x.d * Abs(y.n))

Fabs(x) ==
  IF x.k = "nan" THEN NaN
  ELSE IF x.k = "inf" THEN PInf
  ELSE Fin(Abs(x.n), x.d)

\* IEEE comparisons: every comparison with a NaN operand is false.
Lt(x, y) ==
  IF x.k = "nan" \/ y.k = "nan" THEN FALSE
  ELSE IF x.k = "inf" THEN x.n < 0 /\ ~(y.k = "inf" /\ y.n < 0)
  ELSE IF y.k = "inf" THEN y.n > 0
  ELSE x.n * y.d < y.n * x.d

Gt(x, y) == Lt(y, x)

Le(x, y) ==
  IF x.k = "nan" \/ y.k = "nan" THEN FALSE ELSE ~Lt(y, x)

\* The fixed tolerance of every approximate comparison of the layer.
CONSTRAINT_TOLERANCE == Fin(1, 4)

(***************************************************************************)
(* Matrices.  A dense matrix is [rows, cols, a] with a indexed by the      *)
(* 0-based pair <<row, col>>; a vector is a matrix of one column.          *)
(***************************************************************************)
Idx(R, C) == (0 .. R - 1) \X (0 .. C - 1)

InRange(y, i, j) == i >= 0 /\ i < y.rows /\ j >= 0 /\ j < y.cols

\* y(i, j).  An index outside the matrix is undefined behaviour of the
\* unchecked accessor: the value read is whatever g happens to be.
At(y, i, j, g) == IF InRange(y, i, j) THEN y.a[<<i, j>>] ELSE g

(***************************************************************************)
(* y.ldlt().vectorD(): the diagonal of D in P^T L D L^T P = y, read from   *)
(* the lower triangle, with the pivot of each step the remaining diagonal  *)
(* entry of largest magnitude.                                             *)
(***************************************************************************)
Lower(y, i, j) == IF i >= j THEN y.a[<<i, j>>] ELSE y.a[<<j, i>>]

\* maxCoeff over positions k..n-1 of |diag|: the first coefficient, replaced
\* by a later one only when that one compares greater.
RECURSIVE MaxFrom(_, _, _, _, _)
MaxFrom(y, ord, n, i, best) ==
  IF i >= n THEN best
  ELSE IF Gt(Fabs(Lower(y, ord[i], ord[i])), Fabs(Lower(y, ord[best], ord[best])))
       THEN MaxFrom(y, ord, n, i + 1, i)
       ELSE MaxFrom(y, ord, n, i + 1, best)

Swap(ord, i, j) == [ord EXCEPT ![i] = ord[j], ![j] = ord[i]]

RECURSIVE PivotOrder(_, _, _, _)
PivotOrder(y, ord, n, k) ==
  IF k >= n THEN ord
  ELSE PivotOrder(y, Swap(ord, k, MaxFrom(y, ord, n, k + 1, k)), n, k + 1)

RECURSIVE Factor(_, _, _, _)
Factor(B, n, k, D) ==
  IF k >= n THEN D
  ELSE LET d == B[<<k, k>>]
           valid == Gt(Fabs(d), Zero)
           l == [i \in 0 .. n - 1 |->
                   IF valid THEN Div(B[<<i, k>>], d) ELSE B[<<i, k>>]]
           S == [p \in Idx(n, n) |->
                   IF p[1] > k /\ p[2] > k
                   THEN Sub(B[p], Mul(Mul(l[p[1]], d), l[p[2]]))
                   ELSE B[p]]
       IN  Factor(S, n, k + 1, Append(D, d))

vectorD(y) ==
  LET n == y.rows
      ord == PivotOrder(y, [i \in 0 .. n - 1 |-> i], n, 0)
      B == [p \in Idx(n, n) |-> Lower(y, ord[p[1]], ord[p[2]])]
  IN  Factor(B, n, 0, <<>>)


(***************************************************************************)
(* The error-signalling contract shared by every predicate.                *)
(***************************************************************************)
NoVal == [k |-> "none", n |-> 0, d |-> 1]

\* A formatted message: the literal text, the subject name streamed into it,
\* the index or indices streamed into it, the value substituted for %1% and
\* the second value streamed into it (NoVal when there is none).
Message(text, name, pos, pos2, val2) ==
  [fn |-> "", text |-> text, name |-> name, pos |-> pos, val |-> NoVal,
   pos2 |-> pos2, val2 |-> val2]

\* The outcome of one call: how it ended ("true", "false", "throw" when the
\* policy raised, "abort" when a checked accessor trapped), the reports
\* handed to raise_domain_error, the values stored through result, the
\* entries y(i, j) accessed, and the predicates entered, in order.
Returned(who, reads) ==
  [ret |-> "true", errs |-> <<>>, writes |-> <<>>, reads |-> reads,
   calls |-> <<who>>]

Aborted(who, reads) ==
  [ret |-> "abort", errs |-> <<>>, writes |-> <<>>, reads |-> reads,
   calls |-> <<who>>]

\* policies::raise_domain_error: reports, then either raises or hands back
\* the sentinel of the result type, as the policy says.
raise_domain_error(function, message, val, policy) ==
  [thrown |-> policy = "throw",
   value  |-> NaN,
   report |-> [message EXCEPT !.fn = function, !.val = val]]

\* The store without the null test.
AssignAlways(resultNull, tmp) == <<tmp>>

\* if (result != 0) *result = tmp;
Assign(resultNull, tmp) == IF resultNull THEN <<>> ELSE <<tmp>>

\* T_result tmp = raise_domain_error(...); if (result != 0) *result = tmp;
\* return false;
DomainError(who, function, message, val, resultNull, policy, reads) ==
  LET tmp == raise_domain_error(function, message, val, policy)
  IN  IF tmp.thrown
      THEN [ret |-> "throw", errs |-> <<tmp.report>>, writes |-> <<>>,
            reads |-> reads, calls |-> <<who>>]
      ELSE [ret |-> "false", errs |-> <<tmp.report>>,
            writes |-> Assign(resultNull, tmp.value),
            reads |-> reads, calls |-> <<who>>]

\* if (!check_x(...)) return false;  followed by the rest of the composite.
Then(o1, o2) ==
  IF o1.ret = "true"
  THEN [ret |-> o2.ret, errs |-> o1.errs \o o2.errs,
        writes |-> o1.writes \o o2.writes, reads |-> o1.reads \o o2.reads,
        calls |-> o1.calls \o o2.calls]
  ELSE o1

(***************************************************************************)
(* The predicates.                                                         *)
(***************************************************************************)
check_size_match(function, i, j, resultNull, policy) ==
  IF i # j
  THEN DomainError("check_size_match", function,
                   Message("i and j must be same.  Found i=%1%, j=", "",
                           <<>>, <<>>, Fin(j, 1)),
                   Fin(i, 1), resultNull, policy, <<>>)
  ELSE Returned("check_size_match", <<>>)

\* check_positive(function, x, name, result, Policy()): x > 0.
check_positive(function, x, name, resultNull, policy) ==
  IF ~(x > 0)
  THEN DomainError("check_positive", function,
                   Message(" is %1%, but must be > 0", name, <<>>, <<>>, NoVal),
                   Fin(x, 1), resultNull, policy, <<>>)
  ELSE Returned("check_positive", <<>>)

\* size_type k = y.rows();
SymOrder(y) == y.rows

\* The accesses of one evaluation of y(m,n) - y(n,m) up to the first index
\* a checked accessor refuses.
PairReads(y, m, n) ==
  IF InRange(y, m, n) THEN <<<<m, n>>, <<n, m>>>> ELSE <<<<m, n>>>>

RECURSIVE SymScan(_, _, _, _, _, _, _, _, _)
SymScan(function, y, name, resultNull, policy, oob, m, n, reads) ==
  LET k == SymOrder(y)
  IN  IF m >= k THEN Returned("check_symmetric", reads)
      ELSE IF n >= k
      THEN SymScan(function, y, name, resultNull, policy, oob, m + 1, m + 2, reads)
      ELSE IF oob.trap /\ ~(InRange(y, m, n) /\ InRange(y, n, m))
      THEN Aborted("check_symmetric", reads \o PairReads(y, m, n))
      ELSE IF Gt(Fabs(Sub(At(y, m, n, oob.g), At(y, n, m, oob.g))),
                 CONSTRAINT_TOLERANCE)
      THEN DomainError("check_symmetric", function,
                       Message(" is not symmetric. ", name, <<m, n>>, <<n, m>>,
                               At(y, n, m, oob.g)),
                       At(y, m, n, oob.g), resultNull, policy,
                       reads \o <<<<m, n>>, <<n, m>>, <<n, m>>, <<m, n>>>>)
      ELSE SymScan(function, y, name, resultNull, policy, oob, m, n + 1,
                   reads \o <<<<m, n>>, <<n, m>>>>)

check_symmetric(function, y, name, resultNull, policy, oob) ==
  IF SymOrder(y) = 1
  THEN Returned("check_symmetric", <<>>)
  ELSE SymScan(function, y, name, resultNull, policy, oob, 0, 1, <<>>)

\* (cholesky.vectorD().array() <= CONSTRAINT_TOLERANCE).any()
AnyFactorLeTol(D) == \E i \in 1 .. Len(D) : Le(D[i], CONSTRAINT_TOLERANCE)

check_pos_definite(function, y, name, resultNull, policy) ==
  IF y.rows = 1 /\ Le(y.a[<<0, 0>>], CONSTRAINT_TOLERANCE)
  THEN DomainError("check_pos_definite", function,
                   Message(" is not positive definite. ", name, <<0, 0>>,
                           <<>>, NoVal),
                   y.a[<<0, 0>>], resultNull, policy, <<<<0, 0>>, <<0, 0>>>>)
  ELSE IF AnyFactorLeTol(vectorD(y))
  THEN DomainError("check_pos_definite", function,
                   Message(" is not positive definite. ", name, <<0, 0>>,
                           <<>>, NoVal),
                   y.a[<<0, 0>>], resultNull, policy,
                   IF y.rows = 1 THEN <<<<0, 0>>, <<0, 0>>>> ELSE <<<<0, 0>>>>)
  ELSE Returned("check_pos_definite",
                IF y.rows = 1 THEN <<<<0, 0>>>> ELSE <<>>)

check_cov_matrix(function, y, name, resultNull, policy, oob) ==
  Then(check_size_match(function, y.rows, y.cols, resultNull, policy),
  Then(check_positive(function, y.rows, "rows", resultNull, policy),
  Then(check_symmetric(function, y, "y", resultNull, policy, oob),
       check_pos_definite(function, y, "y", resultNull, policy))))

\* for (k = 0; k < y.rows(); ++k) if (fabs(y(k,k) - 1.0) > CONSTRAINT_TOLERANCE)
RECURSIVE UnitDiagonal(_, _, _, _, _, _, _)
UnitDiagonal(function, y, name, resultNull, policy, k, reads) ==
  IF k >= y.rows THEN Returned("unit_diagonal", reads)
  ELSE IF Gt(Fabs(Sub(y.a[<<k, k>>], One)), CONSTRAINT_TOLERANCE)
  THEN DomainError("unit_diagonal", function,
                   Message(" is not a valid correlation matrix. ", name,
                           <<k, k>>, <<>>, NoVal),
                   y.a[<<k, k>>], resultNull, policy,
                   reads \o <<<<k, k>>, <<k, k>>>>)
  ELSE UnitDiagonal(function, y, name, resultNull, policy, k + 1,
                    Append(reads, <<k, k>>))

\* check_corr_matrix with the unit-diagonal loop ahead of check_symmetric.
check_corr_matrix_diag_first(function, y, name, resultNull, policy, oob) ==
  Then(check_size_match(function, y.rows, y.cols, resultNull, policy),
  Then(check_positive(function, y.rows, "rows", resultNull, policy),
  Then(UnitDiagonal(function, y, name, resultNull, policy, 0, <<>>),
  Then(check_symmetric(function, y, "y", resultNull, policy, oob),
       check_pos_definite(function, y, "y", resultNull, policy)))))

check_corr_matrix(function, y, name, resultNull, policy, oob) ==
  Then(check_size_match(function, y.rows, y.cols, resultNull, policy),
  Then(check_positive(function, y.rows, "rows", resultNull, policy),
  Then(check_symmetric(function, y, "y", resultNull, policy, oob),
  Then(UnitDiagonal(function, y, name, resultNull, policy, 0, <<>>),
       check_pos_definite(function, y, "y", resultNull, policy)))))

RECURSIVE NotNanVecScan(_, _, _, _, _, _, _)
NotNanVecScan(function, y, name, resultNull, policy, i, reads) ==
  IF i >= y.rows THEN Returned("check_not_nan", reads)
  ELSE IF IsNaN(y.a[<<i, 0>>])
  THEN DomainError("check_not_nan", function,
                   Message(" is %1%, but must not be nan!", name, <<i>>,
                           <<>>, NoVal),
                   y.a[<<i, 0>>], resultNull, policy,
                   reads \o <<<<i, 0>>, <<i, 0>>>>)
  ELSE NotNanVecScan(function, y, name, resultNull, policy, i + 1,
                     Append(reads, <<i, 0>>))

check_not_nan_vec(function, y, name, resultNull, policy) ==
  NotNanVecScan(function, y, name, resultNull, policy, 0, <<>>)

\* The matrix scan with the loops exchanged: columns outside, rows inside.
RECURSIVE NotNanColMajor(_, _, _, _, _, _, _, _)
NotNanColMajor(function, y, name, resultNull, policy, i, j, reads) ==
  IF j >= y.cols THEN Returned("check_not_nan", reads)
  ELSE IF i >= y.rows
  THEN NotNanColMajor(function, y, name, resultNull, policy, 0, j + 1, reads)
  ELSE IF IsNaN(y.a[<<i, j>>])
  THEN DomainError("check_not_nan", function,
                   Message(" is %1%, but must not be nan!", name, <<i, j>>,
                           <<>>, NoVal),
                   y.a[<<i, j>>], resultNull, policy,
                   reads \o <<<<i, j>>, <<i, j>>>>)
  ELSE NotNanColMajor(function, y, name, resultNull, policy, i + 1, j,
                      Append(reads, <<i, j>>))

check_not_nan_mat_colmajor(function, y, name, resultNull, policy) ==
  NotNanColMajor(function, y, name, resultNull, policy, 0, 0, <<>>)

RECURSIVE NotNanMatScan(_, _, _, _, _, _, _, _)
NotNanMatScan(function, y, name, resultNull, policy, i, j, reads) ==
  IF i >= y.rows THEN Returned("check_not_nan", reads)
  ELSE IF j >= y.cols
  THEN NotNanMatScan(function, y, name, resultNull, policy, i + 1, 0, reads)
  ELSE IF IsNaN(y.a[<<i, j>>])
  THEN DomainError("check_not_nan", function,
                   Message(" is %1%, but must not be nan!", name, <<i, j>>,
                           <<>>, NoVal),
                   y.a[<<i, j>>], resultNull, policy,
                   reads \o <<<<i, j>>, <<i, j>>>>)
  ELSE NotNanMatScan(function, y, name, resultNull, policy, i, j + 1,
                     Append(reads, <<i, j>>))

check_not_nan_mat(function, y, name, resultNull, policy) ==
  NotNanMatScan(function, y, name, resultNull, policy, 0, 0, <<>>)

RECURSIVE FiniteScan(_, _, _, _, _, _, _)
FiniteScan(function, y, name, resultNull, policy, i, reads) ==
  IF i >= y.rows THEN Returned("check_finite", reads)
  ELSE IF ~IsFinite(y.a[<<i, 0>>])
  THEN DomainError("check_finite", function,
                   Message(" is %1%, but must be finite!", name, <<i>>,
                           <<>>, NoVal),
                   y.a[<<i, 0>>], resultNull, policy,
                   reads \o <<<<i, 0>>, <<i, 0>>>>)
  ELSE FiniteScan(function, y, name, resultNull, policy, i + 1,
                  Append(reads, <<i, 0>>))

check_finite(function, y, name, resultNull, policy) ==
  FiniteScan(function, y, name, resultNull, policy, 0, <<>>)

\* The overload without a subject name.
check_cov_matrix_Sigma(function, Sigma, resultNull, policy, oob) ==
  Then(check_size_match(function, Sigma.rows, Sigma.cols, resultNull, policy),
  Then(check_positive(function, Sigma.rows, "rows", resultNull, policy),
       check_symmetric(function, Sigma, "Sigma", resultNull, policy, oob)))

(***************************************************************************)
(* The caller: the arguments it can pass.                                  *)
(***************************************************************************)
\* Largest row and column count of a matrix argument.
MaxDim == 3

\* Largest length of a vector argument.
MaxLen == 3

Mat(R, C, f) == [rows |-> R, cols |-> C, a |-> f]

\* The R x C matrix with a unit diagonal and zeros elsewhere.
Eye(R, C) ==
  Mat(R, C, [p \in Idx(R, C) |-> IF p[1] = p[2] THEN One ELSE Zero])

Put(M, p, v) == [M EXCEPT !.a[p] = v]

\* Values an entry is overwritten with: 0 and 1 and the values one and two
\* tolerances above them, 2, +infinity and NaN.
EditVals ==
  {Zero, CONSTRAINT_TOLERANCE, Add(CONSTRAINT_TOLERANCE, CONSTRAINT_TOLERANCE),
   One, Add(One, CONSTRAINT_TOLERANCE),
   Add(One, Add(CONSTRAINT_TOLERANCE, CONSTRAINT_TOLERANCE)), Two, PInf, NaN}

\* Every matrix of at most MaxDim rows and columns that differs from Eye in
\* at most two entries when it is square, in at most one when it is not.
OneEdit(M) == {Put(M, p, v) : p \in DOMAIN M.a, v \in EditVals}

\* The matrices the documentation uses as examples: [[1,2],[2,1]],
\* [[1,2],[3,1]], [[5]] and [[-1]].
Examples ==
  {Put(Put(Eye(2, 2), <<0, 1>>, Two), <<1, 0>>, Two),
   Put(Put(Eye(2, 2), <<0, 1>>, Two), <<1, 0>>, Fin(3, 1)),
   Put(Eye(1, 1), <<0, 0>>, Fin(5, 1)),
   Put(Eye(1, 1), <<0, 0>>, Fin(-1, 1))}

Matrices ==
  Examples \cup
  UNION {
    LET E == Eye(R, C)
    IN  {E} \cup OneEdit(E) \cup
        (IF R = C THEN UNION {OneEdit(M) : M \in OneEdit(E)} ELSE {})
    : R \in 0 .. MaxDim, C \in 0 .. MaxDim}

SquareMatrices == {M \in Matrices : M.rows = M.cols}

VecVals == {One, NaN, PInf, NInf}

\* Every column vector of at most MaxLen entries over VecVals.
Vectors ==
  UNION {{Mat(R, 1, f) : f \in [Idx(R, 1) -> VecVals]} : R \in 0 .. MaxLen}

\* The subject name the caller passes.
Names == {"Omega"}

Policies == {"throw", "sentinel"}

FunctionLabel == "fn"

\* The content of the caller's result variable before the call.
SlotInit == Zero

NoOob == [trap |-> FALSE, g |-> Zero]

\* What an access outside the matrix does: a checked accessor traps, an
\* unchecked one reads whatever lies there.
OobChoices ==
  {[trap |-> TRUE, g |-> Zero], [trap |-> FALSE, g |-> Zero],
   [trap |-> FALSE, g |-> Two], [trap |-> FALSE, g |-> NaN]}

OobFor(M) == IF M.rows > M.cols /\ M.rows >= 2 THEN OobChoices ELSE {NoOob}

NoMatrix == Mat(0, 0, [p \in Idx(0, 0) |-> Zero])

VARIABLES op, y, sz, name, resultNull, policy, oob, slot, writes, ret, errs,
          reads, calls

vars ==
  <<op, y, sz, name, resultNull, policy, oob, slot, writes, ret, errs, reads,
    calls>>

Init ==
  /\ op = "idle"
  /\ y = NoMatrix
  /\ sz = <<0, 0>>
  /\ name = ""
  /\ resultNull = TRUE
  /\ policy = "throw"
  /\ oob = NoOob
  /\ slot = SlotInit
  /\ writes = <<>>
  /\ ret = "none"
  /\ errs = <<>>
  /\ reads = <<>>
  /\ calls = <<>>

NoCall ==
  /\ sz' = <<0, 0>>
  /\ name' = ""
  /\ resultNull' = TRUE
  /\ policy' = "throw"
  /\ oob' = NoOob
  /\ slot' = SlotInit
  /\ writes' = <<>>
  /\ ret' = "none"
  /\ errs' = <<>>
  /\ reads' = <<>>
  /\ calls' = <<>>

\* The caller builds a Matrix<T, Dynamic, Dynamic>.
ConstructMatrix ==
  /\ op = "idle"
  /\ \E M \in Matrices : y' = M
  /\ op' = "matrix"
  /\ NoCall

\* The caller builds a Matrix<T, Dynamic, 1>.
ConstructVector ==
  /\ op = "idle"
  /\ \E v \in Vectors : y' = v
  /\ op' = "vector"
  /\ NoCall

\* The caller passes the arguments and observes the outcome o.
Observe(f, dims, nm, rn, pol, ob, o) ==
  /\ op' = f
  /\ y' = y
  /\ sz' = dims
  /\ name' = nm
  /\ resultNull' = rn
  /\ policy' = pol
  /\ oob' = ob
  /\ slot' = IF o.writes = <<>> THEN SlotInit ELSE o.writes[Len(o.writes)]
  /\ writes' = o.writes
  /\ ret' = o.ret
  /\ errs' = o.errs
  /\ reads' = o.reads
  /\ calls' = o.calls

CallSizeMatch ==
  /\ op = "idle"
  /\ \E i \in 0 .. MaxDim, j \in 0 .. MaxDim, rn \in BOOLEAN, pol \in Policies :
       Observe("check_size_match", <<i, j>>, "", rn, pol, NoOob,
               check_size_match(FunctionLabel, i, j, rn, pol))

CallSymmetric ==
  /\ op = "matrix"
  /\ \E nm \in Names, rn \in BOOLEAN, pol \in Policies, ob \in OobFor(y) :
       Observe("check_symmetric", <<y.rows, y.cols>>, nm, rn, pol, ob,
               check_symmetric(FunctionLabel, y, nm, rn, pol, ob))

\* y.ldlt() is defined for square matrices only.
CallPosDefinite ==
  /\ op = "matrix"
  /\ y.rows = y.cols
  /\ \E nm \in Names, rn \in BOOLEAN, pol \in Policies :
       Observe("check_pos_definite", <<y.rows, y.cols>>, nm, rn, pol, NoOob,
               check_pos_definite(FunctionLabel, y, nm, rn, pol))

CallCovMatrix ==
  /\ op = "matrix"
  /\ \E nm \in Names, rn \in BOOLEAN, pol \in Policies :
       Observe("check_cov_matrix", <<y.rows, y.cols>>, nm, rn, pol, NoOob,
               check_cov_matrix(FunctionLabel, y, nm, rn, pol, NoOob))

CallCovMatrixSigma ==
  /\ op = "matrix"
  /\ \E rn \in BOOLEAN, pol \in Policies :
       Observe("check_cov_matrix_Sigma", <<y.rows, y.cols>>, "", rn, pol,
               NoOob, check_cov_matrix_Sigma(FunctionLabel, y, rn, pol, NoOob))

CallCorrMatrix ==
  /\ op = "matrix"
  /\ \E nm \in Names, rn \in BOOLEAN, pol \in Policies :
       Observe("check_corr_matrix", <<y.rows, y.cols>>, nm, rn, pol, NoOob,
               check_corr_matrix(FunctionLabel, y, nm, rn, pol, NoOob))

CallNotNanVec ==
  /\ op = "vector"
  /\ \E nm \in Names, rn \in BOOLEAN, pol \in Policies :
       Observe("check_not_nan_vec", <<y.rows, y.cols>>, nm, rn, pol, NoOob,
               check_not_nan_vec(FunctionLabel, y, nm, rn, pol))

CallNotNanMat ==
  /\ op = "matrix"
  /\ \E nm \in Names, rn \in BOOLEAN, pol \in Policies :
       Observe("check_not_nan_mat", <<y.rows, y.cols>>, nm, rn, pol, NoOob,
               check_not_nan_mat(FunctionLabel, y, nm, rn, pol))

CallFinite ==
  /\ op = "vector"
  /\ \E nm \in Names, rn \in BOOLEAN, pol \in Policies :
       Observe("check_finite", <<y.rows, y.cols>>, nm, rn, pol, NoOob,
               check_finite(FunctionLabel, y, nm, rn, pol))

VectorOps == {"check_not_nan_vec", "check_finite"}

\* The call is over; the caller is free to make the next one on the same
\* argument.
Done ==
  /\ op \notin {"idle", "matrix", "vector"}
  /\ op' = IF op = "check_size_match" THEN "idle"
           ELSE IF op \in VectorOps THEN "vector" ELSE "matrix"
  /\ y' = y
  /\ NoCall

Next ==
  \/ ConstructMatrix
  \/ ConstructVector
  \/ CallSizeMatch
  \/ CallSymmetric
  \/ CallPosDefinite
  \/ CallCovMatrix
  \/ CallCovMatrixSigma
  \/ CallCorrMatrix
  \/ CallNotNanVec
  \/ CallNotNanMat
  \/ CallFinite
  \/ Done

Spec == Init /\ [][Next]_vars

(***************************************************************************)
(* Vocabulary of the properties.                                           *)
(***************************************************************************)
Composites == {"check_cov_matrix", "check_cov_matrix_Sigma", "check_corr_matrix"}

Failed == ret \in {"false", "throw"}

LastCall == calls[Len(calls)]

IsSquare(M) == M.rows = M.cols

HasNaN(M) == \E p \in DOMAIN M.a : IsNaN(M.a[p])

AllFinite(M) == \A p \in DOMAIN M.a : IsFinite(M.a[p])

\* |M[m,n] - M[n,m]| <= CONSTRAINT_TOLERANCE for every m < n (M square).
SymmetricWithinTol(M) ==
  \A m \in 0 .. M.rows - 1, n \in 0 .. M.rows - 1 :
    m < n => Le(Fabs(Sub(M.a[<<m, n>>], M.a[<<n, m>>])), CONSTRAINT_TOLERANCE)

\* Every diagonal factor of the LDL factorization exceeds the tolerance.
AllFactorsExceedTol(M) ==
  LET D == vectorD(M)
  IN  \A i \in 1 .. Len(D) : Gt(D[i], CONSTRAINT_TOLERANCE)

\* |M[k,k] - 1.0| <= CONSTRAINT_TOLERANCE for every k (M square).
UnitDiagonalWithinTol(M) ==
  \A k \in 0 .. M.rows - 1 :
    Le(Fabs(Sub(M.a[<<k, k>>], One)), CONSTRAINT_TOLERANCE)

\* The sub-condition of a covariance matrix that fails first.
FirstFailingCov(M) ==
  IF ~IsSquare(M) THEN "check_size_match"
  ELSE IF ~(M.rows > 0) THEN "check_positive"
  ELSE IF ~SymmetricWithinTol(M) THEN "check_symmetric"
  ELSE IF ~AllFactorsExceedTol(M) THEN "check_pos_definite"
  ELSE "none"

\* The sub-check a report comes from, read off its text.
ErrSource(e) ==
  IF e.text = "i and j must be same.  Found i=%1%, j=" THEN "check_size_match"
  ELSE IF e.text = " is %1%, but must be > 0" THEN "check_positive"
  ELSE IF e.text = " is not symmetric. " THEN "check_symmetric"
  ELSE IF e.text = " is not a valid correlation matrix. " THEN "unit_diagonal"
  ELSE IF e.text = " is not positive definite. " THEN "check_pos_definite"
  ELSE "other"

CovMatrixIff ==
  /\ (ret = "true") <=>
       (/\ IsSquare(y) /\ y.rows > 0
        /\ SymmetricWithinTol(y) /\ AllFactorsExceedTol(y))
  /\ ret # "true" =>
       /\ Len(errs) = 1
       /\ ErrSource(errs[1]) = FirstFailingCov(y)

\* C1: the named overload check_cov_matrix returns true iff y is square, of
\* positive order, symmetric within the tolerance and positive definite
\* (every LDL diagonal factor exceeds the tolerance), and otherwise reports
\* exactly the error of the first of these four conditions that fails.
C1_CovMatrixIff == op = "check_cov_matrix" => CovMatrixIff

\* C1 restricted to matrices whose entries are all finite.
C1_CovMatrixIffOnFinite ==
  (op = "check_cov_matrix" /\ AllFinite(y)) => CovMatrixIff

\* C2: the overload of check_cov_matrix without a subject name returns true
\* only for a symmetric, positive definite matrix.
C2_SigmaOverloadOnlyValid ==
  (op = "check_cov_matrix_Sigma" /\ ret = "true") =>
    (SymmetricWithinTol(y) /\ AllFactorsExceedTol(y))

CorrMatrixIff ==
  /\ (ret = "true") <=>
       (/\ IsSquare(y) /\ y.rows > 0
        /\ SymmetricWithinTol(y) /\ UnitDiagonalWithinTol(y)
        /\ AllFactorsExceedTol(y))
  /\ (y.rows >= 1 /\ y = Eye(y.rows, y.rows)) => ret = "true"

\* C3: check_corr_matrix returns true iff R is square, of positive order,
\* symmetric within the tolerance, with every diagonal entry within the
\* tolerance of 1.0, and positive definite; the identity of every order >= 1
\* passes.
C3_CorrMatrixIff == op = "check_corr_matrix" => CorrMatrixIff

\* C3 restricted to matrices whose entries are all finite.
C3_CorrMatrixIffOnFinite ==
  (op = "check_corr_matrix" /\ AllFinite(y)) => CorrMatrixIff

SymmetricIff ==
  /\ (ret = "true") <=> SymmetricWithinTol(y)
  /\ y.rows <= 1 => ret = "true"

\* C4: on a square matrix check_symmetric returns true iff
\* |M[m,n] - M[n,m]| <= CONSTRAINT_TOLERANCE for every m < n; in particular
\* it returns true for every order <= 1.
C4_SymmetricIff == (op = "check_symmetric" /\ IsSquare(y)) => SymmetricIff

\* C4 restricted to matrices whose entries are all finite.
C4_SymmetricIffOnFinite ==
  (op = "check_symmetric" /\ IsSquare(y) /\ AllFinite(y)) => SymmetricIff

PosDefiniteIff ==
  /\ (ret = "true") <=> AllFactorsExceedTol(y)
  /\ y.rows = 1 =>
       ((ret = "true") <=> Gt(y.a[<<0, 0>>], CONSTRAINT_TOLERANCE))
  /\ y = Put(Eye(1, 1), <<0, 0>>, Fin(5, 1)) => ret = "true"
  /\ y = Put(Eye(1, 1), <<0, 0>>, Zero) => ret # "true"
  /\ ret # "true" =>
       /\ Len(errs) = 1
       /\ errs[1].val = y.a[<<0, 0>>]
       /\ errs[1].pos = <<0, 0>>

\* C5: on a square matrix check_pos_definite returns true iff every LDL
\* diagonal factor exceeds the tolerance; for order 1 iff M[0,0] exceeds it
\* (5.0 passes, 0.0 fails); every failure reports the value M[0,0].
C5_PosDefiniteIff == op = "check_pos_definite" => PosDefiniteIff

\* C5 restricted to matrices whose entries are all finite.
C5_PosDefiniteIffOnFinite ==
  (op = "check_pos_definite" /\ AllFinite(y)) => PosDefiniteIff

ReadsInRange == \A i \in 1 .. Len(reads) : InRange(y, reads[i][1], reads[i][2])

\* C6: check_symmetric, called directly on a matrix of any shape, only
\* accesses entries that exist.
C6_ReadsInRange == op = "check_symmetric" => ReadsInRange

\* C6 by shape: check_symmetric only accesses entries that exist when the
\* matrix has no more rows than columns; on a matrix with more rows than
\* columns, every call that returns true has accessed an entry (m, n) with
\* n >= cols, which does not exist.
C6_ReadsInRangeUnlessTall ==
  op = "check_symmetric" =>
    /\ y.rows <= y.cols => ReadsInRange
    /\ (y.rows > y.cols /\ y.rows >= 2 /\ ret = "true") => ~ReadsInRange

\* A direct call on a wide matrix that compared at least one pair.
C6_Witness ==
  /\ op = "check_symmetric"
  /\ y.rows = 2 /\ y.cols = 3
  /\ ret = "true"
  /\ Len(reads) >= 2

\* C7: every report of a symmetry, positive-definiteness or unit-diagonal
\* violation carries the subject name the caller passed to the outermost
\* call.
C7_MessageNamesSubject ==
  (/\ op \in {"check_symmetric", "check_pos_definite", "check_cov_matrix",
              "check_corr_matrix"}
   /\ Failed
   /\ LastCall \in {"check_symmetric", "check_pos_definite", "unit_diagonal"})
  => errs[1].name = name

\* C7 for the predicates called directly and for the unit-diagonal check.
C7_DirectCallsNameSubject ==
  (/\ op \in {"check_symmetric", "check_pos_definite", "check_not_nan_vec",
              "check_not_nan_mat", "check_finite"}
   /\ Failed)
  => errs[1].name = name

Calls ==
  {"check_size_match", "check_symmetric", "check_pos_definite",
   "check_not_nan_vec", "check_not_nan_mat", "check_finite"} \cup Composites

\* C8: under a policy that hands back a sentinel instead of raising, a
\* predicate stores through result exactly when the call fails and result
\* is not null, it stores the sentinel the reporting mechanism returned and
\* returns false; a successful call leaves the slot unchanged and reports
\* nothing; with a null result nothing is stored.
C8_OutputSlotContract ==
  (op \in Calls /\ policy = "sentinel") =>
    /\ (writes # <<>>) <=> (ret = "false" /\ ~resultNull)
    /\ writes # <<>> =>
         /\ writes = <<raise_domain_error(errs[1].fn, errs[1], errs[1].val,
                                          policy).value>>
         /\ slot = writes[1]
    /\ ret = "false" => Len(errs) = 1
    /\ ret = "true" => (slot = SlotInit /\ errs = <<>>)
    /\ resultNull => slot = SlotInit
    /\ ret # "throw"

\* A failing composite call that stored the sentinel in the caller's slot.
C8_Witness ==
  /\ op = "check_corr_matrix"
  /\ policy = "sentinel"
  /\ ~resultNull
  /\ ret = "false"
  /\ slot = NaN
  /\ LastCall = "unit_diagonal"

\* The entry the scan of check_symmetric sees at (i, j).
ValAt(i, j) == At(y, i, j, oob.g)

SymViolation(m, n) ==
  Gt(Fabs(Sub(ValAt(m, n), ValAt(n, m))), CONSTRAINT_TOLERANCE)

\* p comes before q in row-major order.
Before(p, q) == p[1] < q[1] \/ (p[1] = q[1] /\ p[2] < q[2])

Pairs(k) == {p \in (0 .. k - 1) \X (0 .. k - 1) : p[1] < p[2]}

Upper(r) == IF r[1] <= r[2] THEN r ELSE <<r[2], r[1]>>

SymmetricReportsFirst ==
  LET e == errs[1]
      p == e.pos
  IN  /\ Len(errs) = 1
      /\ p \in Pairs(y.rows)
      /\ SymViolation(p[1], p[2])
      /\ \A q \in Pairs(y.rows) : Before(q, p) => ~SymViolation(q[1], q[2])
      /\ e.val = ValAt(p[1], p[2])
      /\ e.pos2 = <<p[2], p[1]>>
      /\ e.val2 = ValAt(p[2], p[1])
      /\ \A i \in 1 .. Len(reads) : ~Before(p, Upper(reads[i]))

NotNanMatReportsFirst ==
  LET e == errs[1]
      p == e.pos
  IN  /\ Len(errs) = 1
      /\ p \in DOMAIN y.a
      /\ IsNaN(y.a[p])
      /\ \A q \in DOMAIN y.a : Before(q, p) => ~IsNaN(y.a[q])
      /\ e.val = y.a[p]
      /\ \A i \in 1 .. Len(reads) : ~Before(p, reads[i])

\* bad(v): the entry v violates the vector check.
VectorReportsFirst(bad(_)) ==
  LET e == errs[1]
      i == e.pos[1]
  IN  /\ Len(errs) = 1
      /\ Len(e.pos) = 1
      /\ i \in 0 .. y.rows - 1
      /\ bad(y.a[<<i, 0>>])
      /\ \A j \in 0 .. i - 1 : ~bad(y.a[<<j, 0>>])
      /\ e.val = y.a[<<i, 0>>]
      /\ \A r \in 1 .. Len(reads) : reads[r][1] <= i

NotFinite(v) == IsNaN(v) \/ v = PInf \/ v = NInf

ExampleAsymmetric == Put(Put(Eye(2, 2), <<0, 1>>, Two), <<1, 0>>, Fin(3, 1))

SubChecks(f) ==
  IF f = "check_corr_matrix"
  THEN <<"check_size_match", "check_positive", "check_symmetric",
         "unit_diagonal", "check_pos_definite">>
  ELSE <<"check_size_match", "check_positive", "check_symmetric",
         "check_pos_definite">>

IsPrefix(s, t) == Len(s) <= Len(t) /\ \A i \in 1 .. Len(s) : s[i] = t[i]

Invoked(c) == \E i \in 1 .. Len(calls) : calls[i] = c

====
